---- MODULE Spec2Model ----
(***************************************************************************)
(* Route handlers of the anime providers (kickassanime, anizone, allmanga, *)
(* animepahe) and the read-through cache helper cache.fetch they call; the *)
(* handlers of animeyy, which call their scrapers directly, and the        *)
(* episode list that fetchAnimeInfo of animeyy builds; the sources that    *)
(* fetchEpisodeSources of allmanga, anizone and animeyy returns; the cache *)
(* keys the handlers compose.                                              *)
(*                                                                         *)
(* Every handler is an async function on a single-threaded event loop: a   *)
(* request runs until its next await, and the continuations of different   *)
(* requests interleave at the awaits (redis.get, the producer's network    *)
(* calls, redis.set).  One action of the model is one such run.            *)
(***************************************************************************)
EXTENDS Integers, Sequences, FiniteSets, Bags, TLC

VARIABLES
    redis,    \* the Redis handle exported by main: TRUE when configured
    route,    \* the route the requests of this behaviour are sent to
    store,    \* the Redis key space: key -> [val: serialized text, ttl: seconds left]
    written,  \* history: key -> [val: what the call that last wrote the key
              \* returned, age: the seconds since, inv: the producer calls it made]
    ticks,    \* the number of clock steps taken
    req,      \* the requests being served and those just answered: a bag of
              \* records (see NewReq)
    info,     \* one request to GET /info of animeyy.ts, followed through
              \* fetchAnimeInfo (see NewInfo)
    scrape,   \* one call of fetchEpisodeSources (see NewScrape)
    keyed     \* two requests to cached routes, with the cache keys and the
              \* producer calls their handlers make (see NewKeyed)

vars == <<redis, route, store, written, ticks, req, info, scrape, keyed>>

---------------------------------------------------------------------------
(* Bounds of the model. *)

\* the number of requests the server holds at the same time
MaxReqs == 2

\* the number of clock steps in one behaviour
MaxTicks == 2

\* REDIS_TTL of main (configuration, read from the environment): seconds
REDIS_TTL == 5

\* setTimeout(..., 50000) of animepahe /watch, in seconds
TIMEOUT_SECS == 50

\* The clock advances by one second, by one TTL or by one timeout period.
TickSteps == {1, REDIS_TTL, TIMEOUT_SECS}

\* The cap of the AJAX loop of fetchAnimeInfo (pageNum <= 50 in the source),
\* scaled down so that the cap is reached with the few episodes of the model.
MaxAjaxPages == 4

\* The episodes of one page of the /info response (100 in the source),
\* scaled down likewise.
EpisodesPerPage == 2

\* emptyCount >= 2 stops the loop
EmptyLimit == 2

\* the most urls (or video ids) the patterns of fetchEpisodeSources find in
\* one page
MaxFinds == 2

---------------------------------------------------------------------------
(* Values.  A string is the sequence of its tokens, so that a template     *)
(* string is a concatenation.                                              *)

\* JavaScript's undefined, as a query parameter that is absent
Undefined == <<"\\undefined">>

EmptyString == <<>>

\* `${x}` of a template string
Str(x) == IF x = Undefined THEN <<"undefined">> ELSE x

\* !x for a string parameter
Falsy(x) == x = Undefined \/ x = EmptyString

\* JSON null and "no value yet"
Null == [null |-> TRUE]
NoVal == [none |-> TRUE]

\* the payloads a producer can return
Payload42 == [value |-> 42]
Payload99 == [value |-> 99]
PayloadHdr == [value |-> 99, headers |-> [Referer |-> "https://animepahe.ru", UserAgent |-> "ua"]]

\* the orders in which JSON.stringify writes the properties
FieldOrder == <<"value", "headers">>
HeaderOrder == <<"Referer", "UserAgent">>

\* a number as its decimal text
NumText(n) == ToString(n)

RECURSIVE SerHeaders(_, _)
SerHeaders(h, i) ==
    IF i > Len(HeaderOrder) THEN <<>>
    ELSE LET name == HeaderOrder[i]
         IN  (IF name \in DOMAIN h THEN <<name, ":", h[name], ",">> ELSE <<>>)
             \o SerHeaders(h, i + 1)

RECURSIVE SerFields(_, _)
SerFields(v, i) ==
    IF i > Len(FieldOrder) THEN <<>>
    ELSE LET name == FieldOrder[i]
         IN  (IF name \notin DOMAIN v THEN <<>>
              ELSE IF name = "headers"
                   THEN <<name, ":", "{">> \o SerHeaders(v[name], 1) \o <<"}", ",">>
                   ELSE <<name, ":", NumText(v[name]), ",">>)
             \o SerFields(v, i + 1)

\* A serialization that keeps the top-level numbers only.
SerializeNoHeaders(v) ==
    IF v = Null THEN <<"null">>
    ELSE <<"{", "value", ":", NumText(v.value), ",", "}">>

\* JSON.stringify(value)
Serialize(v) ==
    IF v = Null THEN <<"null">> ELSE <<"{">> \o SerFields(v, 1) \o <<"}">>

\* the JSON values of the model
Headers == {[Referer |-> "https://animepahe.ru", UserAgent |-> "ua"],
            [Referer |-> "https://kwik.cx", UserAgent |-> "ua"],
            [Referer |-> "https://kwik.cx"]}
JsonValues ==
    {Null, Payload42, Payload99}
    \cup {[value |-> n, headers |-> h] : n \in {42, 99}, h \in Headers}

\* JSON.parse(text): the value whose text it is
Deserialize(text) == CHOOSE v \in JsonValues : Serialize(v) = text

---------------------------------------------------------------------------
(* The routes and what differs between their handlers. *)

Routes == {"kickassanime/info", "kickassanime/watch", "anizone/watch",
           "allmanga/watch", "animepahe/watch", "animeyy/info", "animeyy/watch"}

\* the handler of rt hands its producer to cache.fetch when there is a Redis
\* handle; the handlers of routes/anime/animeyy.ts never do
UsesCache(rt) == rt \notin {"animeyy/info", "animeyy/watch"}

\* the values of the id / episodeId parameter of the requests sent to rt
Ids(rt) ==
    IF rt \in {"kickassanime/watch", "anizone/watch"}
    THEN {Undefined, EmptyString, <<"ep1">>}
    ELSE {Undefined, <<"ep1">>}

\* the values of the server query parameter (read by kickassanime /watch/* only)
Servers == {Undefined, <<"vidstreaming">>}

\* A validation that looks for undefined only.
MissingUndefinedOnly(rt, id) == id = Undefined

\* the validation at the top of a handler: TRUE when the reply is 400
Missing(rt, id) ==
    IF rt = "kickassanime/watch"
    THEN id = Undefined \/ id = EmptyString
    ELSE id = Undefined

\* The cache key the handler passes to cache.fetch.  id is the first
\* parameter the handler reads (id, episodeId, query, or page for
\* recent-episodes), server the second (server, page, episodePage).
KeyOf(rt, id, server) ==
    CASE rt = "kickassanime/search" ->
            <<"kickassanime", ":", "search", ":">> \o Str(id) \o <<":">> \o Str(server)
      [] rt = "kickassanime/servers" ->
            <<"kickassanime", ":", "servers", ":">> \o Str(id)
      [] rt = "anizone/search" ->
            <<"anizone", ":", "search", ":">> \o Str(id)
      [] rt = "anizone/info" ->
            <<"anizone", ":", "info", ":">> \o Str(id)
      [] rt = "animepahe/search" ->
            <<"animepahe", ":", "search", ":">> \o Str(id)
      [] rt = "animepahe/recent-episodes" ->
            <<"animepahe", ":", "recent-episodes", ":">> \o Str(id)
      [] rt = "animepahe/info" ->
            <<"animepahe", ":", "info", ":">> \o Str(id) \o <<":">> \o Str(server)
      [] rt = "animeyy/watch(cached)" ->
            <<"animeyy", ":", "watch", ":">> \o Str(id)
      [] rt = "kickassanime/info" ->
            <<"kickassanime", ":", "info", ":">> \o Str(id)
      [] rt = "kickassanime/watch" ->
            <<"kickassanime", ":", "watch", ":">> \o Str(id) \o <<":">>
                \o Str(IF Falsy(server) THEN <<"default">> ELSE server)
      [] rt = "anizone/watch" ->
            <<"anizone", ":", "watch", ":">> \o Str(id)
      [] rt = "allmanga/watch" ->
            <<"allmanga", ":", "watch", ":">> \o Str(id)
      [] rt = "animepahe/watch" ->
            <<"animepahe", ":", "watch", ":">> \o Str(id)
      [] OTHER -> <<>>

\* a call of a producer: the function and its arguments
Call(fn, args) == [fn |-> fn, args |-> args]
NoCall == Call("", <<>>)

\* A producer closure that leaves the server argument out.
CachedCallNoServer(rt, id, server) ==
    IF rt = "kickassanime/watch"
    THEN Call("kickassanime.fetchEpisodeSources", <<id>>)
    ELSE Call(rt, <<id>>)

\* the producer the handler passes to cache.fetch, as the call it makes
CachedCall(rt, id, server) ==
    CASE rt = "kickassanime/search" -> Call("kickassanime.search", <<id, server>>)
      [] rt = "kickassanime/servers" -> Call("kickassanime.fetchEpisodeServers", <<id>>)
      [] rt = "anizone/search" -> Call("anizone.searchAnime", <<id>>)
      [] rt = "anizone/info" -> Call("anizone.fetchAnimeInfo", <<id>>)
      [] rt = "animepahe/search" -> Call("animepahe.search", <<id>>)
      [] rt = "animepahe/recent-episodes" ->
            Call("animepahe.fetchRecentEpisodes", <<id>>)
      [] rt = "animepahe/info" -> Call("animepahe.fetchAnimeInfo", <<id, server>>)
      [] rt = "animeyy/watch(cached)" -> Call("animeyy.fetchEpisodeSources", <<id>>)
      [] rt = "kickassanime/info" -> Call("kickassanime.fetchAnimeInfo", <<id>>)
      [] rt = "kickassanime/watch" ->
            IF Falsy(server)
            THEN Call("kickassanime.fetchEpisodeSources", <<id>>)
            ELSE Call("kickassanime.fetchEpisodeSources", <<id, server>>)
      [] rt = "anizone/watch" -> Call("anizone.fetchEpisodeSources", <<id>>)
      [] rt = "allmanga/watch" -> Call("allmanga.fetchEpisodeSources", <<id>>)
      [] rt = "animepahe/watch" -> Call("animepahe.fetchEpisodeSources", <<id>>)
      [] OTHER -> NoCall

\* the call the handler makes itself when there is no Redis handle
DirectCall(rt, id, server) ==
    CASE rt = "kickassanime/info" -> Call("kickassanime.fetchAnimeInfo", <<id>>)
      [] rt = "kickassanime/watch" ->
            IF Falsy(server)
            THEN Call("kickassanime.fetchEpisodeSources", <<id>>)
            ELSE Call("kickassanime.fetchEpisodeSources", <<id, server>>)
      [] rt = "anizone/watch" -> Call("anizone.fetchEpisodeSources", <<id>>)
      [] rt = "allmanga/watch" -> Call("allmanga.fetchEpisodeSources", <<id>>)
      [] rt = "animepahe/watch" -> Call("animepahe.fetchEpisodeSources", <<id>>)
      [] rt = "animeyy/info" -> Call("animeyy.fetchAnimeInfo", <<id, Undefined>>)
      [] rt = "animeyy/watch" -> Call("animeyy.fetchEpisodeSources", <<id>>)

\* A handler that passes a TTL of one second.
TtlOfShort(rt) == 1

\* A handler that passes twice the configured TTL.
TtlOfLong(rt) == 2 * REDIS_TTL

\* the TTL the handler passes to cache.fetch
TtlOf(rt) == REDIS_TTL

\* what the producer of a route can return when it succeeds
ProducerResults(rt) ==
    IF rt = "animepahe/watch"
    THEN {Payload42, PayloadHdr, Null}
    ELSE {Payload42, Payload99}

\* the messages of the errors a producer can throw; the catch block of
\* animepahe /watch picks the status by the message
TimerMsg == "Request timeout after 50 seconds"
ErrMsgs(rt) ==
    IF rt = "animepahe/watch"
    THEN {"upstream failed", "timeout of 10000ms exceeded"}
    ELSE {"upstream failed"}

\* err.message.includes('timeout')
IncludesTimeout(msg) == msg \in {"timeout of 10000ms exceeded", TimerMsg}

Error(msg) == [error |-> msg]
IsError(x) == "error" \in DOMAIN x

\* An override that replaces the headers by the Referer alone.
WithRefererOnly(res) ==
    [f \in DOMAIN res \cup {"headers"} |->
        IF f = "headers" THEN [Referer |-> "https://kwik.cx"] ELSE res[f]]

\* res.headers = { ...(res.headers || {}), Referer: 'https://kwik.cx' }
WithReferer(res) ==
    LET old == IF "headers" \in DOMAIN res THEN res.headers ELSE <<>>
        new == [h \in DOMAIN old \cup {"Referer"} |->
                   IF h = "Referer" THEN "https://kwik.cx" ELSE old[h]]
    IN  [f \in DOMAIN res \cup {"headers"} |->
            IF f = "headers" THEN new ELSE res[f]]

\* A catch block that answers 502 to a timeout.
CatchStatusBadGateway(rt, msg) ==
    IF rt = "animepahe/watch" /\ IncludesTimeout(msg) THEN 502 ELSE 500

\* the status of the reply sent by the catch block of a handler
CatchStatus(rt, msg) ==
    IF rt = "animepahe/watch" /\ IncludesTimeout(msg) THEN 504 ELSE 500

\* the body of the 400 reply
MissingBody(rt) ==
    IF rt \in {"kickassanime/info", "animeyy/info"}
    THEN [message |-> "id is required"]
    ELSE [message |-> "episodeId is required"]

\* The body of the reply sent by the catch block.  kickassanime sends the
\* message alone, anizone and allmanga add err.message, animepahe adds
\* err.message (NODE_ENV other than PROD) and the episodeId.
CatchBody(rt, id, msg) ==
    LET message == "Something went wrong. Contact developer for help."
    IN  IF rt \in {"kickassanime/info", "kickassanime/watch"}
        THEN [message |-> message]
        ELSE IF rt = "animepahe/watch"
             THEN [message |-> message, error |-> msg, episodeId |-> id]
             ELSE [message |-> message, error |-> msg]

\* A catch block that swallows the error and answers 200 with no result.
ResponseOfSwallow(rt, id, outcome) ==
    IF IsError(outcome) THEN <<200, Null>> ELSE <<200, outcome>>

\* the reply of a handler whose awaited fetch settled with outcome:
\* <<status, body>>
ResponseOf(rt, id, outcome) ==
    IF IsError(outcome)
    THEN <<CatchStatus(rt, outcome.error), CatchBody(rt, id, outcome.error)>>
    ELSE IF rt = "animepahe/watch"
         THEN IF outcome = Null
              THEN <<404, [message |-> "No sources found for this episode",
                           episodeId |-> id]>>
              ELSE <<200, WithReferer(outcome)>>
         ELSE <<200, outcome>>

---------------------------------------------------------------------------
(* A request.                                                              *)
(*   id, server  its parameters                                            *)
(*   hpc  where the handler is: "start" (called), "await" (awaiting the    *)
(*        fetch), "done" (it has replied)                                  *)
(*   fpc  where the fetch promise is: "none", "get" (redis.get pending),   *)
(*        "producer" (the producer is running), "set" (redis.set           *)
(*        pending), "resolved", "rejected"                                 *)
(*   call the producer call made for it (NoCall: none)                     *)
(*   val  what the producer returned; res what the fetch settled with      *)
(*   status, body, sent  the reply and the number of replies sent          *)
(*   left  the seconds until the timeout timer fires (-1: no timer armed)  *)
(* History, read by the properties only:                                   *)
(*   ev      the steps of the request after its validation, in order       *)

NewReq ==
    [id |-> Undefined, server |-> Undefined,
     hpc |-> "start", fpc |-> "none", call |-> NoCall,
     val |-> NoVal, res |-> NoVal,
     status |-> 0, body |-> NoVal, sent |-> 0, left |-> -1,
     ev |-> <<>>]

Key(q) == KeyOf(route, q.id, q.server)

\* the fetch of q is over (or was never started)
Settled(q) == q.fpc \in {"none", "resolved", "rejected"}

Finished(q) == q.hpc = "done" /\ Settled(q)

\* reply.status(status).send(body); the race is over, its timer no longer counts
Reply(q, status, body) ==
    [q EXCEPT !.hpc = "done", !.status = status, !.body = body, !.sent = @ + 1,
              !.left = -1]

\* A handler that replies whenever its fetch promise settles, whether or not
\* it has replied already.
SettleAlways(q, outcome) ==
    LET q1 == [q EXCEPT !.fpc = IF IsError(outcome) THEN "rejected" ELSE "resolved",
                        !.res = outcome]
        rsp == ResponseOf(route, q.id, outcome)
    IN  Reply(q1, rsp[1], rsp[2])

\* The fetch promise settles with outcome; a handler that is still awaiting it
\* resumes and replies.
Settle(q, outcome) ==
    LET q1 == [q EXCEPT !.fpc = IF IsError(outcome) THEN "rejected" ELSE "resolved",
                        !.res = outcome]
        rsp == ResponseOf(route, q.id, outcome)
    IN  IF q.hpc = "await" THEN Reply(q1, rsp[1], rsp[2]) ELSE q1

---------------------------------------------------------------------------
(* The Redis server. *)

\* redis.get(key) finds a value: the key is set and has not expired
Fresh(key) == key \in DOMAIN store

\* the entry redis.set(key, text, 'EX', ttl) leaves in the store
EntryOf(text, ttl) == [val |-> text, ttl |-> ttl]

\* the store after d seconds: the keys whose time is up are gone
Aged(d) ==
    [k \in {x \in DOMAIN store : store[x].ttl > d} |->
        [store[k] EXCEPT !.ttl = @ - d]]

\* the age of a write, kept up to one second past the TTL
Older(age, d) == IF age + d > REDIS_TTL THEN REDIS_TTL + 1 ELSE age + d

---------------------------------------------------------------------------
(* cache.fetch(redis, key, producer, ttl) of utils/cache, in its steps. *)

\* cache.fetch is called: it issues redis.get(key)
FetchCall(q) == [q EXCEPT !.fpc = "get"]

\* The producer is called (by cache.fetch on a miss, or by the handler itself
\* when there is no Redis handle).
Invoke(q, call) ==
    [q EXCEPT !.fpc = "producer", !.call = call, !.ev = Append(@, "invoke")]

\* A single-flight helper: a miss waits for the producer call another request
\* of the same key has in progress.
MissJoin(q) ==
    IF \E p \in BagToSet(req) :
          p.fpc = "producer" /\ KeyOf(route, p.id, p.server) = Key(q)
    THEN [q EXCEPT !.fpc = "joined"]
    ELSE Invoke(q, CachedCall(route, q.id, q.server))

\* redis.get has answered with nothing: cache.fetch calls the producer it was
\* given
Miss(q) == Invoke(q, CachedCall(route, q.id, q.server))

\* A store with sliding expiration: a read starts the lifetime of the entry
\* anew.
AfterGetTouch(key) ==
    [k \in DOMAIN store |->
        IF k = key THEN [store[k] EXCEPT !.ttl = REDIS_TTL] ELSE store[k]]

\* the store after redis.get(key): reading changes nothing
AfterGet(key) == store

\* redis.get has answered with text: the fetch resolves with the parsed value
Hit(q, text) == Settle(q, Deserialize(text))

\* the requests in the bag
Reqs == BagToSet(req)

\* the bag with request q replaced by q2
Replace(q, q2) == (req (-) SetToBag({q})) (+) SetToBag({q2})

\* redis.get(key) has answered for request q: a hit resolves the fetch with the
\* deserialized entry, a miss calls the producer.
CacheGet(q) ==
    LET key == Key(q)
        q1 == [q EXCEPT !.ev = Append(@, "get")]
    IN  /\ q.fpc = "get"
        /\ req' = Replace(q, IF Fresh(key) THEN Hit(q1, store[key].val)
                                           ELSE Miss(q1))
        /\ store' = AfterGet(key)
        /\ UNCHANGED <<info, scrape, keyed, redis, route, written, ticks>>

\* A write that keeps the entry the key already has (SET ... NX).
StoredNX(key, v, ttl) ==
    [k \in DOMAIN store \cup {key} |->
        IF k \in DOMAIN store THEN store[k] ELSE EntryOf(Serialize(v), ttl)]

\* The store after cache.fetch has written the producer's result v under key
\* with redis.set(key, JSON.stringify(v), 'EX', ttl).
Stored(key, v, ttl) ==
    [k \in DOMAIN store \cup {key} |->
        IF k = key THEN EntryOf(Serialize(v), ttl) ELSE store[k]]

\* the number of times request q has called its producer
Invocations(q) == Len(SelectSeq(q.ev, LAMBDA e : e = "invoke"))

\* redis.set has answered for request q: the entry is written and the fetch
\* resolves with the producer's result.
CacheSet(q) ==
    LET key == Key(q)
        q2 == Settle([q EXCEPT !.ev = Append(@, "set")], q.val)
    IN  /\ q.fpc = "set"
        /\ store' = Stored(key, q.val, TtlOf(route))
        /\ written' = [k \in DOMAIN written \cup {key} |->
                          IF k = key
                          THEN [val |-> q2.res, age |-> 0, inv |-> Invocations(q2)]
                          ELSE written[k]]
        /\ req' = Replace(q, q2)
        /\ UNCHANGED <<info, scrape, keyed, redis, route, ticks>>

---------------------------------------------------------------------------
(* The producers: the scrapers and the calls of the extraction library. *)

\* The producer cache.fetch called has returned v: it issues redis.set
Produced(q, v) == [q EXCEPT !.fpc = "set", !.val = v, !.ev = Append(@, "return")]

\* What becomes of the fetch when its producer has returned v: with Redis,
\* cache.fetch goes on to write v; without, the handler's own await gets v.
Returned(q, v) ==
    IF redis /\ UsesCache(route)
    THEN Produced(q, v)
    ELSE Settle([q EXCEPT !.val = v, !.ev = Append(@, "return")], v)

\* A fetch that calls the producer a second time when it has thrown.
ThrownRetry(q, msg) ==
    IF Len(SelectSeq(q.ev, LAMBDA e : e = "invoke")) < 2
    THEN Invoke([q EXCEPT !.ev = Append(@, "throw")], q.call)
    ELSE Settle([q EXCEPT !.ev = Append(@, "throw")], Error(msg))

\* What becomes of the fetch when its producer has thrown: the error passes
\* through cache.fetch to the handler.
Thrown(q, msg) == Settle([q EXCEPT !.ev = Append(@, "throw")], Error(msg))

ProducerReturn(q) ==
    /\ q.fpc = "producer"
    /\ \E v \in ProducerResults(route) : req' = Replace(q, Returned(q, v))
    /\ UNCHANGED <<info, scrape, keyed, redis, route, store, written, ticks>>

ProducerThrow(q) ==
    /\ q.fpc = "producer"
    /\ \E msg \in ErrMsgs(route) : req' = Replace(q, Thrown(q, msg))
    /\ UNCHANGED <<info, scrape, keyed, redis, route, store, written, ticks>>

---------------------------------------------------------------------------
(* The handlers. *)

\* A handler that never goes through cache.fetch.
StartFetchDirect(q) == Invoke(q, DirectCall(route, q.id, q.server))

\* A handler that calls the producer before it hands it to cache.fetch.
StartFetchEager(q) ==
    IF redis /\ UsesCache(route)
    THEN FetchCall(Invoke(q, DirectCall(route, q.id, q.server)))
    ELSE Invoke(q, DirectCall(route, q.id, q.server))

\* let res = redis ? await cache.fetch(redis, key, producer, REDIS_TTL)
\*                 : await producer()
StartFetch(q) ==
    IF redis /\ UsesCache(route)
    THEN FetchCall(q)
    ELSE Invoke(q, DirectCall(route, q.id, q.server))

\* the timer the handler arms (-1: the handler has no timer)
TimerOf(rt) == IF rt = "animepahe/watch" THEN TIMEOUT_SECS ELSE -1

\* The handler of rt receives a request and runs to its first await.
Handle(rt, id, server) ==
    LET q == [NewReq EXCEPT !.id = id, !.server = server]
    IN  IF Missing(rt, id)
        THEN Reply(q, 400, MissingBody(rt))
        ELSE StartFetch([q EXCEPT !.hpc = "await", !.left = TimerOf(rt)])

\* A request arrives.  The server holds MaxReqs requests: when it is full, the
\* new one takes the place of one that is over.
Request ==
    /\ \E id \in Ids(route), server \in Servers :
          /\ (route # "kickassanime/watch" \/ Missing(route, id))
                => server = Undefined
          /\ IF BagCardinality(req) < MaxReqs
             THEN req' = req (+) SetToBag({Handle(route, id, server)})
             ELSE \E old \in Reqs :
                     /\ Finished(old)
                     /\ req' = Replace(old, Handle(route, id, server))
    /\ UNCHANGED <<info, scrape, keyed, redis, route, store, written, ticks>>

\* A timer that cancels the fetch it raced against.
TimeoutCancel(q) ==
    LET rsp == ResponseOf(route, q.id, Error(TimerMsg))
    IN  /\ q.hpc = "await"
        /\ q.left = 0
        /\ req' = Replace(q, Reply([q EXCEPT !.ev = Append(@, "timeout"),
                                             !.fpc = "rejected",
                                             !.res = Error(TimerMsg)],
                                   rsp[1], rsp[2]))
        /\ UNCHANGED <<info, scrape, keyed, redis, route, store, written, ticks>>

\* The timer of animepahe /watch fires while the handler awaits the race: the
\* race rejects, the catch block replies, the fetch goes on.
Timeout(q) ==
    LET rsp == ResponseOf(route, q.id, Error(TimerMsg))
    IN  /\ q.hpc = "await"
        /\ q.left = 0
        /\ req' = Replace(q, Reply([q EXCEPT !.ev = Append(@, "timeout")],
                                   rsp[1], rsp[2]))
        /\ UNCHANGED <<info, scrape, keyed, redis, route, store, written, ticks>>

---------------------------------------------------------------------------
(* Time. *)

\* request q after d seconds
Waited(q, d) == IF q.left >= 0 THEN [q EXCEPT !.left = @ - d] ELSE q

\* d seconds pass.  A timer that is due fires before the clock moves on.
Tick ==
    /\ ticks < MaxTicks
    /\ \E d \in TickSteps :
          /\ \A q \in Reqs : q.left >= 0 => d <= q.left
          /\ store' = Aged(d)
          /\ written' = [k \in DOMAIN written |->
                            [written[k] EXCEPT !.age = Older(@, d)]]
          /\ req' = LET W(q) == Waited(q, d) IN BagOfAll(W, req)
    /\ ticks' = ticks + 1
    /\ UNCHANGED <<info, scrape, keyed, redis, route>>

---------------------------------------------------------------------------
(* GET /info of routes/anime/animeyy.ts and fetchAnimeInfo.  A string that *)
(* is parsed is the sequence of its characters.                            *)

DigitChars == {"0", "1", "2", "3", "4", "5", "6", "7", "8", "9"}
DigitVal(c) == CHOOSE n \in 0..9 : ToString(n) = c

\* the digits s has from position i on
RECURSIVE LeadingDigits(_, _)
LeadingDigits(s, i) ==
    IF i > Len(s) \/ s[i] \notin DigitChars THEN <<>>
    ELSE <<s[i]>> \o LeadingDigits(s, i + 1)

RECURSIVE Decimal(_, _)
Decimal(ds, acc) ==
    IF ds = <<>> THEN acc ELSE Decimal(Tail(ds), 10 * acc + DigitVal(Head(ds)))

\* the values of the page argument of fetchAnimeInfo
PageNone == [kind |-> "undefined"]
NaN == [kind |-> "NaN"]
Num(n) == [kind |-> "number", n |-> n]

\* parseInt(s): an optional sign and the digits that follow, NaN without any
ParseInt(s) ==
    LET neg == s # <<>> /\ s[1] = "-"
        ds == LeadingDigits(s, IF neg THEN 2 ELSE 1)
    IN  IF ds = <<>> THEN NaN
        ELSE Num(IF neg THEN 0 - Decimal(ds, 0) ELSE Decimal(ds, 0))

\* const page = query.page ? parseInt(query.page) : undefined
PageOf(query) == IF Falsy(query) THEN PageNone ELSE ParseInt(query)

\* the page query parameters and the ids of the requests
PageQueries ==
    {Undefined, <<>>, <<"0">>, <<"1">>, <<"2">>, <<"3">>, <<"-", "1">>,
     <<"a">>, <<"2", "x">>}
InfoIds == {Undefined, <<"/", "one-piece", "-", "6", "3", "/">>, <<"naruto">>}

\* id.replace(/^\/+|\/+$/g, '')
RECURSIVE CleanId(_)
CleanId(id) ==
    IF id # <<>> /\ Head(id) = "/" THEN CleanId(Tail(id))
    ELSE IF id # <<>> /\ id[Len(id)] = "/" THEN CleanId(SubSeq(id, 1, Len(id) - 1))
    ELSE id

\* the number of digits s ends with
RECURSIVE TrailingDigits(_)
TrailingDigits(s) ==
    IF s = <<>> \/ s[Len(s)] \notin DigitChars THEN 0
    ELSE 1 + TrailingDigits(SubSeq(s, 1, Len(s) - 1))

\* cleanId.match(/-(\d+)$/) finds a manga id
HasMangaId(cleanId) ==
    LET d == TrailingDigits(cleanId)
    IN  d > 0 /\ Len(cleanId) > d /\ cleanId[Len(cleanId) - d] = "-"

\* One a[href*="/epi-"] element, as what the two patterns find in its href:
\* eid is the match of /\/(epi-[\d-]+)\/?$/ (<<>>: none), num the number
\* matched by /epi-(\d+)-/ (-1: none).
EpA == [eid |-> <<"epi-1-11">>, num |-> 1]
EpB == [eid |-> <<"epi-2-22">>, num |-> 2]
EpC == [eid |-> <<"epi-2-23">>, num |-> 2]
EpD == [eid |-> <<"epi-7">>, num |-> -1]
EpX == [eid |-> <<>>, num |-> -1]
Links == {EpA, EpB, EpC, EpD, EpX}

\* The HTML of a chapter list or of the anime page, as the elements it has
\* with '/epi-' in their href; HTML without any does not contain '/epi-'.
Htmls == {<<>>} \cup {<<a>> : a \in Links} \cup {<<a, b>> : a \in Links, b \in Links}

\* htmlContent.includes('/epi-')
IncludesEpi(html) == html # <<>>

\* what axios.get answers: it throws, or data without HTML in it, or HTML
AxiosThrow == [kind |-> "throw"]
NoHtml == [kind |-> "none"]
Html(links) == [kind |-> "html", links |-> links]
AjaxResponses == {AxiosThrow, NoHtml} \cup {Html(h) : h \in Htmls}
PageResponses == {AxiosThrow, Html(<<>>), Html(<<EpX>>), Html(<<EpB, EpA>>)}

\* A test that takes no episode id for seen.
SeenNever(episodes, episodeId) == FALSE

\* seenEpisodeIds.has(episodeId): an id is added to the set exactly when its
\* episode is pushed
Seen(episodes, episodeId) ==
    \E i \in DOMAIN episodes : episodes[i].id = episodeId

\* parseEpisodes(html): the episodes list with the new episodes of the links
\* appended
RECURSIVE ParseEpisodes(_, _, _)
ParseEpisodes(episodes, cleanId, links) ==
    IF links = <<>> THEN episodes
    ELSE LET l == Head(links)
             episodeId == IF l.eid = <<>> THEN <<>> ELSE cleanId \o <<"/">> \o l.eid
             seen == Seen(episodes, episodeId)
             number == IF l.num >= 0 THEN l.num ELSE Len(episodes) + 1
         IN  IF episodeId = <<>> \/ seen
             THEN ParseEpisodes(episodes, cleanId, Tail(links))
             ELSE ParseEpisodes(Append(episodes, [id |-> episodeId, number |-> number]),
                                cleanId, Tail(links))

\* sorted with e put in after the episodes whose number is not greater
RECURSIVE InsertByNumber(_, _)
InsertByNumber(sorted, e) ==
    IF sorted = <<>> THEN <<e>>
    ELSE IF Head(sorted).number <= e.number
         THEN <<Head(sorted)>> \o InsertByNumber(Tail(sorted), e)
         ELSE <<e>> \o sorted

\* episodes.sort((a, b) => a.number - b.number): ascending and stable
RECURSIVE SortEpisodes(_)
SortEpisodes(episodes) ==
    IF episodes = <<>> THEN <<>>
    ELSE InsertByNumber(SortEpisodes(SubSeq(episodes, 1, Len(episodes) - 1)),
                        episodes[Len(episodes)])

\* array.slice(startIndex, endIndex) for 0 <= startIndex <= endIndex
Slice(array, startIndex, endIndex) ==
    SubSeq(array, startIndex + 1,
           IF endIndex < Len(array) THEN endIndex ELSE Len(array))

\* A slice that starts one page late.
PageSliceLate(episodes, page) ==
    IF page.kind = "number" /\ page.n > 0
    THEN Slice(episodes, page.n * EpisodesPerPage,
               page.n * EpisodesPerPage + EpisodesPerPage)
    ELSE episodes

\* if (page !== undefined && page > 0) episodes.slice(startIndex, endIndex)
PageSlice(episodes, page) ==
    IF page.kind = "number" /\ page.n > 0
    THEN Slice(episodes, (page.n - 1) * EpisodesPerPage,
               (page.n - 1) * EpisodesPerPage + EpisodesPerPage)
    ELSE episodes

\* (page * 100) < totalEpisodes; a comparison with NaN is false
HasNextPage(page, totalEpisodes) ==
    page.kind = "number" /\ page.n * EpisodesPerPage < totalEpisodes

\* the response object built by fetchAnimeInfo
InfoResponse(cleanId, episodes, page) ==
    LET base == [id |-> cleanId, totalEpisodes |-> Len(episodes),
                 episodes |-> PageSlice(episodes, page)]
    IN  IF page # PageNone
        THEN [f \in DOMAIN base \cup {"currentPage", "hasNextPage"} |->
                 CASE f = "currentPage" -> page
                   [] f = "hasNextPage" -> HasNextPage(page, Len(episodes))
                   [] OTHER -> base[f]]
        ELSE base

\* The request and the locals of fetchAnimeInfo.
\*   pc  "idle" (no request), "start", "page" (awaiting the anime page),
\*       "ajax" (awaiting the chapter list of page pageNum), "done"
\*   asked  history: the page_num of the AJAX requests issued, in order
\*   failedAt  history: the page_num of the AJAX request that threw (0: none)
\*   all    history: the episodes list after the sort
NewInfo(id, query) ==
    [pc |-> "start", id |-> id, query |-> query, data |-> <<>>,
     pageNum |-> 1, hasMore |-> TRUE, emptyCount |-> 0, episodes |-> <<>>,
     asked |-> <<>>, failedAt |-> 0, all |-> <<>>, status |-> 0, body |-> NoVal]
NoInfo == [NewInfo(Undefined, Undefined) EXCEPT !.pc = "idle"]

\* reply.status(status).send(body)
InfoReply(i, status, body) == [i EXCEPT !.pc = "done", !.status = status, !.body = body]

\* A loop without the cap on pageNum.
MoreToFetchUncapped(i) == i.hasMore

\* while (hasMore && pageNum <= 50)
MoreToFetch(i) == i.hasMore /\ i.pageNum <= MaxAjaxPages

\* A counter that a page with new episodes leaves as it is.
NextEmptyCountNoReset(emptyCount, added) ==
    IF added THEN emptyCount ELSE emptyCount + 1

\* emptyCount after a page with episode links: counted when it added no
\* episode, reset when it added one
NextEmptyCount(emptyCount, added) == IF added THEN 0 ELSE emptyCount + 1

\* The rest of fetchAnimeInfo once the loop is over, and the handler's reply:
\* the fallback to the anime page, the sort, the slice, the response.
Finish(i) ==
    LET cleanId == CleanId(i.id)
        episodes == IF i.episodes = <<>>
                    THEN ParseEpisodes(<<>>, cleanId, i.data)
                    ELSE i.episodes
        sorted == SortEpisodes(episodes)
    IN  InfoReply([i EXCEPT !.all = sorted], 200,
                  InfoResponse(cleanId, sorted, PageOf(i.query)))

\* The head of the while loop: the next AJAX request is issued, or the loop
\* is over.
Continue(i) ==
    IF MoreToFetch(i)
    THEN [i EXCEPT !.pc = "ajax", !.asked = Append(@, i.pageNum)]
    ELSE Finish(i)

\* A loop whose catch block drops what the pages before collected.
AfterAjaxDropOnFailure(i, rsp) ==
    IF rsp.kind = "html" /\ IncludesEpi(rsp.links)
    THEN LET episodes == ParseEpisodes(i.episodes, CleanId(i.id), rsp.links)
             emptyCount == NextEmptyCount(i.emptyCount, Len(episodes) # Len(i.episodes))
         IN  [i EXCEPT !.episodes = episodes,
                       !.emptyCount = emptyCount,
                       !.hasMore = ~(Len(episodes) = Len(i.episodes)
                                     /\ emptyCount >= EmptyLimit),
                       !.pageNum = @ + 1]
    ELSE [i EXCEPT !.hasMore = FALSE, !.episodes = <<>>,
                   !.failedAt = IF rsp.kind = "throw" THEN i.pageNum ELSE 0]

\* the body of the loop for the response rsp of the AJAX request
AfterAjax(i, rsp) ==
    IF rsp.kind = "html" /\ IncludesEpi(rsp.links)
    THEN LET episodes == ParseEpisodes(i.episodes, CleanId(i.id), rsp.links)
             emptyCount == NextEmptyCount(i.emptyCount, Len(episodes) # Len(i.episodes))
         IN  [i EXCEPT !.episodes = episodes,
                       !.emptyCount = emptyCount,
                       !.hasMore = ~(Len(episodes) = Len(i.episodes)
                                     /\ emptyCount >= EmptyLimit),
                       !.pageNum = @ + 1]
    ELSE [i EXCEPT !.hasMore = FALSE,
                   !.failedAt = IF rsp.kind = "throw" THEN i.pageNum ELSE 0]

\* The handler of GET /info runs to its first await: the validation, then
\* fetchAnimeInfo up to the request of the anime page.
InfoHandle ==
    /\ info.pc = "start"
    /\ info' = IF info.id = Undefined
               THEN InfoReply(info, 400, MissingBody("animeyy/info"))
               ELSE [info EXCEPT !.pc = "page"]
    /\ UNCHANGED <<scrape, keyed, redis, route, store, written, ticks, req>>

\* The anime page is answered: a failure is rethrown to the handler, which
\* replies 500; otherwise the loop is entered when the id has a manga id.
PageFetched ==
    /\ info.pc = "page"
    /\ \E rsp \in PageResponses :
          info' = IF rsp.kind = "throw"
                  THEN InfoReply(info, 500,
                                 CatchBody("animeyy/info", info.id,
                                           "Failed to fetch anime info"))
                  ELSE LET i == [info EXCEPT !.data = rsp.links]
                       IN  IF HasMangaId(CleanId(info.id))
                           THEN Continue(i)
                           ELSE Finish(i)
    /\ UNCHANGED <<scrape, keyed, redis, route, store, written, ticks, req>>

\* The AJAX request of page pageNum is answered; the loop goes round or
\* fetchAnimeInfo runs to its end and the handler replies.
AjaxResponse ==
    /\ info.pc = "ajax"
    /\ \E rsp \in AjaxResponses : info' = Continue(AfterAjax(info, rsp))
    /\ UNCHANGED <<scrape, keyed, redis, route, store, written, ticks, req>>

---------------------------------------------------------------------------
(* fetchEpisodeSources of allmanga, anizone and animeyy (the scraper of    *)
(* the cached handlers and that of routes/anime/animeyy.ts).  A url is the *)
(* sequence of its tokens; a page is what the selectors and the patterns   *)
(* of the scraper find in it, in the order they find it.                   *)

\* the scrapers: "animeyy" is the one of the cached handlers, "animeyy.ts"
\* the one of routes/anime/animeyy.ts
Impls == {"allmanga", "anizone", "animeyy", "animeyy.ts"}

\* null, where a url is expected
NullUrl == <<"\\null">>

\* BASE_URL of the provider
BaseUrl == <<"https://site">>

\* the urls the pages of the model hold
EmbedM3u8 == <<"https://cdn", "/embed/", "v1", ".m3u8">>
AnimeM3u8 == <<"https://cdn", "/anime/", "v1", ".m3u8">>
AnimeM3u8Semi == <<"https://cdn", "/anime/", "v1", ".m3u8", ";">>
EmbedMp4 == <<"https://cdn", "/embed/", "v1", ".mp4">>
PosterJpg == <<"https://cdn", "/anime/", "v1", ".jpg">>
Urls == {EmbedM3u8, AnimeM3u8, AnimeM3u8Semi, EmbedMp4, PosterJpg}

\* the src attribute of the iframe of a page (NullUrl: no iframe with a src)
IframeAttrs == {NullUrl, <<"https://player", "/embed/", "e1">>, <<"/embed/", "e1">>}

\* the video ids in the seiryuu.vid-cdn.xyz urls of an anizone page
VideoIds == {<<"ab12">>, <<"cd34">>}

\* url.includes('.m3u8'), url.includes('.mp4')
IsM3U8(url) == ".m3u8" \in {url[k] : k \in DOMAIN url}
IsMp4(url) == ".mp4" \in {url[k] : k \in DOMAIN url}

\* src.startsWith('http')
StartsWithHttp(url) ==
    url # <<>> /\ url[1] \in {"https://cdn", "https://player", "https://site"}

\* url.replace(/[\\'")\]},;]+$/, '')
RECURSIVE StripTrailing(_)
StripTrailing(url) ==
    IF url # <<>> /\ url[Len(url)] \in {"\\", "'", "\"", ")", "]", "}", ",", ";"}
    THEN StripTrailing(SubSeq(url, 1, Len(url) - 1))
    ELSE url

\* cleanUrl of animeyy.ts: url.replace(/[\n\r\s]+/g, '') and then the
\* trailing characters
CleanUrl(url) ==
    LET IsText(t) == t \notin {" ", "\n", "\r", "\t"}
    IN  StripTrailing(SelectSeq(url, IsText))

\* source.url.replace(/\/embed\//g, '/anime/')
ReplaceEmbed(url) ==
    [k \in DOMAIN url |-> IF url[k] = "/embed/" THEN "/anime/" ELSE url[k]]

\* What a pattern finds in the page: text is what it matched, via the
\* pattern.  "regex": the m3u8 and the mp4 pattern on a script; "pattern":
\* the file / src / source patterns on a script; "tag": a video or source
\* element (allmanga); "img", "script": a video id in an image url or in a
\* script (anizone).
Find(via, text) == [via |-> via, text |-> text]
Finds(impl) ==
    CASE impl = "anizone" ->
            {Find(via, id) : via \in {"img", "script"}, id \in VideoIds}
      [] impl = "allmanga" ->
            {Find("tag", u) : u \in Urls}
            \cup {Find("regex", u) : u \in {v \in Urls : IsM3U8(v) \/ IsMp4(v)}}
            \cup {Find("pattern", u) : u \in Urls}
      [] OTHER ->
            {Find("regex", u) : u \in {v \in Urls : IsM3U8(v) \/ IsMp4(v)}}
            \cup {Find("pattern", u) : u \in Urls}

\* the sequences of at most n finds
RECURSIVE FindSeqs(_, _)
FindSeqs(impl, n) ==
    IF n = 0 THEN {<<>>}
    ELSE FindSeqs(impl, n - 1)
         \cup {Append(fs, f) : fs \in {gs \in FindSeqs(impl, n - 1) : Len(gs) = n - 1},
                               f \in Finds(impl)}

\* what axios.get answers for the episode page: it throws, or a page with
\* an iframe (or none) and finds
Page(iframe, found) == [kind |-> "html", iframe |-> iframe, found |-> found]
EpisodePages(impl) ==
    {AxiosThrow} \cup {Page(iframe, found) : iframe \in IframeAttrs,
                                             found \in FindSeqs(impl, MaxFinds)}

\* what axios.get answers for the iframe: it throws, or content with the
\* matches of the m3u8 pattern in it
Frame(found) == [kind |-> "html", found |-> found]
NoFrame == [kind |-> "none"]
IframeContents ==
    {AxiosThrow}
    \cup {Frame(found) : found \in {fs \in FindSeqs("animeyy", MaxFinds) :
                                      \A k \in DOMAIN fs : fs[k].via = "regex"
                                                           /\ IsM3U8(fs[k].text)}}

\* an entry of sources
Source(url, quality, isM3U8) == [url |-> url, quality |-> quality, isM3U8 |-> isM3U8]

\* an entry that allmanga found in the content of the iframe
IframeContentSource(url) ==
    [url |-> url, quality |-> "auto", isM3U8 |-> TRUE, source |-> "iframe-content"]

\* sources.find(s => s.url === url)
FindUrl(sources, url) == \E k \in DOMAIN sources : sources[k].url = url

\* iframeSrc of a page: the src made absolute; animeyy.ts cleans it first
IframeSrc(impl, src) ==
    IF src = NullUrl THEN NullUrl
    ELSE LET cleaned == IF impl = "animeyy.ts" THEN CleanUrl(src) ELSE src
         IN  IF StartsWithHttp(cleaned) THEN cleaned ELSE BaseUrl \o cleaned

\* sources after one find of the episode page
Push(impl, sources, f) ==
    CASE impl = "animeyy" /\ f.via = "regex" ->
            Append(sources, Source(StripTrailing(f.text), "auto", IsM3U8(f.text)))
      [] impl = "animeyy" /\ f.via = "pattern" ->
            IF IsM3U8(f.text) \/ IsMp4(f.text)
            THEN Append(sources, Source(f.text, "auto", IsM3U8(f.text)))
            ELSE sources
      [] impl = "animeyy.ts" /\ f.via = "regex" ->
            Append(sources, Source(CleanUrl(f.text), "auto", IsM3U8(f.text)))
      [] impl = "animeyy.ts" /\ f.via = "pattern" ->
            LET url == CleanUrl(f.text)
            IN  IF url # <<>> /\ (IsM3U8(url) \/ IsMp4(url))
                THEN Append(sources, Source(url, "auto", IsM3U8(url)))
                ELSE sources
      [] impl = "allmanga" /\ f.via = "tag" ->
            Append(sources,
                   Source(IF StartsWithHttp(f.text) THEN f.text ELSE BaseUrl \o f.text,
                          "auto", IsM3U8(f.text)))
      [] impl = "allmanga" /\ f.via = "regex" ->
            LET cleanUrl == StripTrailing(f.text)
            IN  IF FindUrl(sources, cleanUrl) THEN sources
                ELSE Append(sources, Source(cleanUrl, "auto", IsM3U8(f.text)))
      [] impl = "allmanga" /\ f.via = "pattern" ->
            IF (IsM3U8(f.text) \/ IsMp4(f.text)) /\ ~FindUrl(sources, f.text)
            THEN Append(sources, Source(f.text, "auto", IsM3U8(f.text)))
            ELSE sources
      [] OTHER -> sources

\* videoIds of anizone: an id of an image url is pushed, an id of a script
\* is pushed when videoIds does not include it
RECURSIVE CollectVideoIds(_, _)
CollectVideoIds(videoIds, found) ==
    IF found = <<>> THEN videoIds
    ELSE LET f == Head(found)
             has == \E k \in DOMAIN videoIds : videoIds[k] = f.text
         IN  CollectVideoIds(IF f.via = "img" \/ ~has THEN Append(videoIds, f.text)
                             ELSE videoIds,
                             Tail(found))

\* The images of an anizone page come before its scripts.
ImagesFirst(found) ==
    LET IsImg(f) == f.via = "img"
        IsScript(f) == f.via = "script"
    IN  SelectSeq(found, IsImg) \o SelectSeq(found, IsScript)

\* videoIds.forEach: the master and the playlist url of each video id
RECURSIVE CdnSources(_)
CdnSources(videoIds) ==
    IF videoIds = <<>> THEN <<>>
    ELSE LET cdnBase == <<"https://seiryuu.vid-cdn.xyz/">> \o Head(videoIds)
         IN  <<Source(cdnBase \o <<"/master", ".m3u8">>, "master", TRUE),
               Source(cdnBase \o <<"/playlist", ".m3u8">>, "auto", TRUE)>>
             \o CdnSources(Tail(videoIds))

\* sources after the scan of the episode page
RECURSIVE PushAll(_, _, _)
PushAll(impl, sources, found) ==
    IF found = <<>> THEN sources
    ELSE PushAll(impl, Push(impl, sources, Head(found)), Tail(found))

DirectSources(impl, found) ==
    IF impl = "anizone" THEN CdnSources(CollectVideoIds(<<>>, ImagesFirst(found)))
    ELSE PushAll(impl, <<>>, found)

\* sources after the matches of the m3u8 pattern in the content of the iframe
RECURSIVE PushFrame(_, _, _)
PushFrame(impl, sources, found) ==
    IF found = <<>> THEN sources
    ELSE LET text == Head(found).text
             url == IF impl = "animeyy.ts" THEN CleanUrl(text) ELSE StripTrailing(text)
             pushed == IF impl = "allmanga"
                       THEN IF FindUrl(sources, url) THEN sources
                            ELSE Append(sources, IframeContentSource(url))
                       ELSE Append(sources, Source(url, "auto", TRUE))
         IN  PushFrame(impl, pushed, Tail(found))

\* Array.from(new Map(sources.map(item => [item.url, item])).values()): a
\* url keeps the place of its first entry and the value of its last
RECURSIVE UniqueSources(_)
UniqueSources(sources) ==
    IF sources = <<>> THEN <<>>
    ELSE LET last == sources[Len(sources)]
             rest == UniqueSources(SubSeq(sources, 1, Len(sources) - 1))
         IN  IF FindUrl(rest, last.url)
             THEN [k \in DOMAIN rest |-> IF rest[k].url = last.url THEN last ELSE rest[k]]
             ELSE Append(rest, last)

\* the iframe is fetched for sources: when the page gave none; allmanga also
\* when the page gave no m3u8 source
FetchesIframe(impl, sources, iframeSrc) ==
    /\ iframeSrc # NullUrl
    /\ IF impl = "allmanga"
       THEN LET uniqueSources == UniqueSources(sources)
            IN  uniqueSources = <<>>
                \/ ~\E k \in DOMAIN uniqueSources : uniqueSources[k].isM3U8
       ELSE sources = <<>>

\* the entry that stands for the iframe
IframeEntry(impl, iframeSrc) ==
    [url |-> iframeSrc, quality |-> "auto",
     isM3U8 |-> IF impl = "animeyy.ts" THEN IsM3U8(iframeSrc) ELSE FALSE,
     type |-> "iframe"]

\* A fallback that adds the iframe to whatever was found.
WithFallbackAlways(impl, uniqueSources, iframeSrc) ==
    IF iframeSrc # NullUrl
    THEN Append(uniqueSources, IframeEntry(impl, iframeSrc))
    ELSE uniqueSources

\* if (iframeSrc && uniqueSources.length === 0) uniqueSources.push(...)
WithFallback(impl, uniqueSources, iframeSrc) ==
    IF iframeSrc # NullUrl /\ uniqueSources = <<>>
    THEN <<IframeEntry(impl, iframeSrc)>>
    ELSE uniqueSources

\* fixedSources of animeyy.ts: every url with '/embed/' replaced
FixedSources(uniqueSources) ==
    [k \in DOMAIN uniqueSources |->
        [uniqueSources[k] EXCEPT !.url = ReplaceEmbed(@)]]

\* the object fetchEpisodeSources returns (its headers are constant)
SourcesResult(impl, sources, iframeSrc) ==
    LET uniqueSources == WithFallback(impl, UniqueSources(sources), iframeSrc)
        out == IF impl = "animeyy.ts" THEN FixedSources(uniqueSources)
               ELSE uniqueSources
    IN  [sources |-> out,
         iframe |-> IF impl = "animeyy.ts" /\ iframeSrc # NullUrl
                    THEN ReplaceEmbed(iframeSrc) ELSE iframeSrc,
         download |-> IF Len(out) > 0 THEN out[1].url ELSE NullUrl]

\* One call of fetchEpisodeSources and its locals.
\*   pc  "idle" (no call), "page" (awaiting the episode page), "iframe"
\*       (awaiting the iframe), "done" (returned), "thrown"
\*   found, frame  history: what the episode page and the iframe held
NewScrape(impl) ==
    [pc |-> "page", impl |-> impl, found |-> <<>>, iframeSrc |-> NullUrl,
     sources |-> <<>>, frame |-> NoFrame, result |-> NoVal]
NoScrape == [NewScrape("") EXCEPT !.pc = "idle"]

\* the sources are complete: fetchEpisodeSources returns
Return(c) ==
    [c EXCEPT !.pc = "done",
              !.result = SourcesResult(c.impl, c.sources, c.iframeSrc)]

\* The episode page is answered: a failure is rethrown; otherwise the page
\* is scanned, and the iframe is requested or the result returned.
EpisodePage ==
    /\ scrape.pc = "page"
    /\ \E rsp \in EpisodePages(scrape.impl) :
          scrape' =
             IF rsp.kind = "throw"
             THEN [scrape EXCEPT !.pc = "thrown",
                                 !.result = Error("Failed to fetch episode sources")]
             ELSE LET iframeSrc == IframeSrc(scrape.impl, rsp.iframe)
                      sources == DirectSources(scrape.impl, rsp.found)
                      c == [scrape EXCEPT !.found = rsp.found,
                                          !.iframeSrc = iframeSrc,
                                          !.sources = sources]
                  IN  IF FetchesIframe(scrape.impl, sources, iframeSrc)
                      THEN [c EXCEPT !.pc = "iframe"]
                      ELSE Return(c)
    /\ UNCHANGED <<info, keyed, redis, route, store, written, ticks, req>>

\* The iframe is answered: its m3u8 urls are added; a failure is logged and
\* adds nothing.
IframeContent ==
    /\ scrape.pc = "iframe"
    /\ \E rsp \in IframeContents :
          scrape' =
             Return([scrape EXCEPT
                        !.frame = rsp,
                        !.sources = IF rsp.kind = "throw" THEN @
                                    ELSE PushFrame(scrape.impl, @, rsp.found)])
    /\ UNCHANGED <<info, keyed, redis, route, store, written, ticks, req>>

---------------------------------------------------------------------------
(* The cache keys of two requests, side by side. *)

\* every route whose handler calls cache.fetch
CachedRoutes ==
    {"kickassanime/search", "kickassanime/info", "kickassanime/watch",
     "kickassanime/servers", "anizone/search", "anizone/info", "anizone/watch",
     "allmanga/watch", "animepahe/search", "animepahe/recent-episodes",
     "animepahe/info", "animepahe/watch", "animeyy/watch(cached)"}

\* the values of the first and of the second parameter of the two requests
KeyIds == {<<"a">>, <<"a", ":", "b">>}
KeyParams == {Undefined, EmptyString, <<"default">>, <<"b", ":", "default">>}

\* a request: its route and its parameters
KeyRequest(rt, id, server) == [rt |-> rt, id |-> id, server |-> server]
KeyRequests ==
    {KeyRequest(rt, id, server) : rt \in CachedRoutes, id \in KeyIds,
                                  server \in KeyParams}

\* Two requests and what their handlers pass to cache.fetch.
\*   pc  "idle" (no requests), "in" (received), "done" (both handlers have
\*       made their call of cache.fetch)
NewKeyed(a, b) ==
    [pc |-> "in", a |-> a, b |-> b, keyA |-> <<>>, keyB |-> <<>>,
     callA |-> NoCall, callB |-> NoCall]
NoKeyed ==
    [NewKeyed(KeyRequest("", <<>>, <<>>), KeyRequest("", <<>>, <<>>))
        EXCEPT !.pc = "idle"]

\* Both handlers run to their call of cache.fetch.
ComposeKeys ==
    /\ keyed.pc = "in"
    /\ keyed' = [keyed EXCEPT
                    !.pc = "done",
                    !.keyA = KeyOf(keyed.a.rt, keyed.a.id, keyed.a.server),
                    !.keyB = KeyOf(keyed.b.rt, keyed.b.id, keyed.b.server),
                    !.callA = CachedCall(keyed.a.rt, keyed.a.id, keyed.a.server),
                    !.callB = CachedCall(keyed.b.rt, keyed.b.id, keyed.b.server)]
    /\ UNCHANGED <<info, scrape, redis, route, store, written, ticks, req>>

---------------------------------------------------------------------------
(* The specifications. *)

InfoInit ==
    /\ redis = FALSE
    /\ route = "animeyy/info"
    /\ store = <<>>
    /\ written = <<>>
    /\ ticks = 0
    /\ req = EmptyBag
    /\ info \in {NewInfo(id, query) : id \in InfoIds, query \in PageQueries}
    /\ scrape = NoScrape
    /\ keyed = NoKeyed

InfoNext == InfoHandle \/ PageFetched \/ AjaxResponse

InfoSpec == InfoInit /\ [][InfoNext]_vars

SourcesInit ==
    /\ redis = FALSE
    /\ route = "animeyy/watch"
    /\ store = <<>>
    /\ written = <<>>
    /\ ticks = 0
    /\ req = EmptyBag
    /\ info = NoInfo
    /\ scrape \in {NewScrape(impl) : impl \in Impls}
    /\ keyed = NoKeyed

SourcesNext == EpisodePage \/ IframeContent

SourcesSpec == SourcesInit /\ [][SourcesNext]_vars

KeyInit ==
    /\ redis = TRUE
    /\ route = "kickassanime/watch"
    /\ store = <<>>
    /\ written = <<>>
    /\ ticks = 0
    /\ req = EmptyBag
    /\ info = NoInfo
    /\ scrape = NoScrape
    /\ keyed \in {NewKeyed(a, b) : a \in KeyRequests, b \in KeyRequests}

KeyNext == ComposeKeys

KeySpec == KeyInit /\ [][KeyNext]_vars

Init ==
    /\ redis \in BOOLEAN
    /\ route \in Routes
    /\ store = <<>>
    /\ written = <<>>
    /\ ticks = 0
    /\ req = EmptyBag
    /\ info = NoInfo
    /\ scrape = NoScrape
    /\ keyed = NoKeyed

Next ==
    \/ Request
    \/ \E q \in Reqs : CacheGet(q)
    \/ \E q \in Reqs : ProducerReturn(q)
    \/ \E q \in Reqs : ProducerThrow(q)
    \/ \E q \in Reqs : CacheSet(q)
    \/ \E q \in Reqs : Timeout(q)
    \/ Tick

Spec == Init /\ [][Next]_vars

---------------------------------------------------------------------------
(* Properties.  A step of one request is told by the record it replaces in *)
(* the bag.                                                                *)

Range(seq) == {seq[i] : i \in DOMAIN seq}

\* request q becomes q2 in this step
Becomes(q, q2) ==
    /\ q2.id = q.id
    /\ q2.server = q.server
    /\ req' = Replace(q, q2)

\* in this step redis.get answers request q, which becomes q2
ReadBy(q, q2) == q.fpc = "get" /\ q2.fpc # "get" /\ Becomes(q, q2)

\* in this step redis.set answers request q, which becomes q2
WriteBy(q, q2) == q.fpc = "set" /\ q2.fpc # "set" /\ Becomes(q, q2)

\* in this step the producer of request q throws
ThrowBy(q, q2) ==
    q.fpc = "producer" /\ q2.fpc = "rejected" /\ Becomes(q, q2)

\* the last write of key is less than REDIS_TTL seconds old
WrittenWithinTtl(key) == key \in DOMAIN written /\ written[key].age < REDIS_TTL

\* C1: with Redis configured, a cache.fetch call whose read of key K is
\* answered less than T (= REDIS_TTL) seconds after the write of K made by
\* an earlier call does not call the producer and returns the value that
\* earlier call returned; the two calls together call the producer once.
C1_HitAvoidsReinvocation ==
    [][\A q \in Reqs, q2 \in BagToSet(req') :
          (ReadBy(q, q2) /\ WrittenWithinTtl(Key(q)))
          => /\ q2.fpc = "resolved"
             /\ q2.res = written[Key(q)].val
             /\ Invocations(q2) = 0
             /\ written[Key(q)].inv + Invocations(q2) = 1]_vars

\* A call has been served from the entry another call wrote at least one
\* second and less than T seconds ago.
C1_Witness ==
    \E q \in Reqs :
        /\ redis /\ q.hpc = "done" /\ q.status = 200
        /\ q.ev = <<"get">>
        /\ Key(q) \in DOMAIN written
        /\ written[Key(q)].age \in 1..(REDIS_TTL - 1)
        /\ written[Key(q)].inv = 1
        /\ q.res = written[Key(q)].val

\* C2: a producer that throws on a miss makes the fetch reject with that
\* error and the handler answer with the status of its catch block; the step
\* leaves the store as it is, no request that threw ever writes, the store
\* never holds anything but a successful producer result, and a read of a key
\* with no write less than T seconds old calls the producer.
C2_FailuresNeverCached ==
    /\ [](\A q \in Reqs :
            "throw" \in Range(q.ev)
            => /\ q.fpc = "rejected" /\ IsError(q.res)
               /\ q.res.error \in ErrMsgs(route)
               /\ "set" \notin Range(q.ev)
               /\ q.hpc = "done"
               /\ "timeout" \notin Range(q.ev)
                    => q.status = CatchStatus(route, q.res.error))
    /\ [](\A k \in DOMAIN store :
            store[k].val \in {Serialize(v) : v \in ProducerResults(route)})
    /\ [][\A q \in Reqs, q2 \in BagToSet(req') :
            /\ ThrowBy(q, q2) => store' = store
            /\ (ReadBy(q, q2) /\ ~WrittenWithinTtl(Key(q)))
               => q2.fpc = "producer" /\ Invocations(q2) = 1]_vars

\* A call failed with the cache cold, and a second call for the same key has
\* called the producer again.
C2_Witness ==
    \E q \in Reqs, p \in Reqs :
        /\ redis /\ Key(q) = Key(p)
        /\ q.ev = <<"get", "invoke", "throw">> /\ q.status = 500
        /\ p.ev = <<"get", "invoke">>
        /\ Key(q) \notin DOMAIN store

\* C3: a read of K answered more than T seconds after the last write of K
\* calls the producer; the write that follows stores the new result under K
\* for T seconds and the call returns it.  With T = 5 and a producer that
\* returns {value: 42} and later {value: 99}: a read at most one second after
\* the write of {value: 42} returns {value: 42}, a read 6 seconds or more after
\* it leads to {value: 99} being returned and stored.
C3_ExpiryReinvokes ==
    [][\A q \in Reqs, q2 \in BagToSet(req') :
          LET key == Key(q) IN
          /\ (ReadBy(q, q2) /\ key \in DOMAIN written
                /\ written[key].age > REDIS_TTL)
             => q2.fpc = "producer" /\ Invocations(q2) = 1
          /\ WriteBy(q, q2)
             => /\ q2.res = q.val
                /\ key \in DOMAIN store'
                /\ store'[key] = EntryOf(Serialize(q.val), REDIS_TTL)
          /\ (REDIS_TTL = 5 /\ ReadBy(q, q2) /\ key \in DOMAIN written
                /\ written[key].val = Payload42 /\ written[key].age \in {0, 1})
             => q2.res = Payload42
          /\ (REDIS_TTL = 5 /\ WriteBy(q, q2) /\ key \in DOMAIN written
                /\ written[key].val = Payload42 /\ written[key].age >= 6
                /\ q.val = Payload99)
             => /\ q2.res = Payload99
                /\ Deserialize(store'[key].val) = Payload99]_vars

\* The scenario: a call was served {value: 42} from the cache, then, two clock
\* steps (1 s and T s) after the start, a call of the same key missed, got
\* {value: 99} from the producer and stored it.
C3_Witness ==
    \E q \in Reqs, p \in Reqs :
        /\ Key(q) = Key(p) /\ ticks = 2
        /\ q.ev = <<"get">> /\ q.res = Payload42 /\ q.status = 200
        /\ p.ev = <<"get", "invoke", "return", "set">>
        /\ p.res = Payload99 /\ p.status = 200
        /\ Key(p) \in DOMAIN store
        /\ store[Key(p)] = EntryOf(Serialize(Payload99), REDIS_TTL)

\* the fetch of q called its producer and is over, and no timer cut the
\* handler short
ColdServed(q) ==
    /\ "invoke" \in Range(q.ev) /\ Settled(q) /\ "timeout" \notin Range(q.ev)

\* what the producer call of q ended with
OutcomeOf(q) == IF "throw" \in Range(q.ev) THEN q.res ELSE q.val

\* C4 as stated: without a Redis handle every handler makes one direct
\* producer call, no cache read or write, answers 200 with exactly the
\* producer's result and fails exactly when the producer fails.
C4_Original ==
    ~redis =>
        /\ store = <<>>
        /\ \A q \in Reqs :
              /\ "get" \notin Range(q.ev) /\ "set" \notin Range(q.ev)
              /\ q.fpc # "none" => Invocations(q) = 1
              /\ (q.hpc = "done" /\ q.fpc # "none")
                 => /\ "return" \in Range(q.ev)
                       => q.status = 200 /\ q.body = q.val
                    /\ q.status # 200 <=> "throw" \in Range(q.ev)

\* C4, amended: without a Redis handle every handler makes one direct
\* producer call and no cache read or write, and its fetch resolves with
\* exactly the producer's result and rejects exactly when the producer throws;
\* the handlers other than animepahe /watch answer 200 with that result and
\* 500 on a failure, animepahe /watch answers with the result under the
\* Referer override, 404 for a null result and 504 when its timer fires
\* first.  With Redis the producer call made on a miss is the call the direct
\* branch makes, and a request that misses gets the reply the handler computes
\* from the producer's outcome, the same as without Redis.
C4_PassThrough ==
    /\ ~redis =>
          /\ store = <<>>
          /\ \A q \in Reqs :
                /\ "get" \notin Range(q.ev) /\ "set" \notin Range(q.ev)
                /\ q.fpc # "none" => Invocations(q) = 1
                /\ q.fpc = "resolved" => q.res = q.val /\ "return" \in Range(q.ev)
                /\ q.fpc = "rejected" <=> "throw" \in Range(q.ev)
                /\ (q.hpc = "done" /\ q.fpc # "none" /\ route # "animepahe/watch")
                   => /\ "return" \in Range(q.ev)
                         => q.status = 200 /\ q.body = q.val
                      /\ "throw" \in Range(q.ev) => q.status = 500
                /\ (q.hpc = "done" /\ q.fpc # "none" /\ route = "animepahe/watch")
                   => \/ "timeout" \in Range(q.ev) /\ q.status = 504
                      \/ "throw" \in Range(q.ev) /\ q.status \in {500, 504}
                      \/ q.val = Null /\ q.status = 404
                      \/ /\ q.val \in ProducerResults(route) \ {Null}
                         /\ q.status = 200 /\ q.body = WithReferer(q.val)
    /\ \A q \in Reqs :
          /\ "invoke" \in Range(q.ev) => q.call = DirectCall(route, q.id, q.server)
          /\ ColdServed(q) =>
                <<q.status, q.body>> = ResponseOf(route, q.id, OutcomeOf(q))

\* Without Redis, kickassanime /watch/* has answered a request that names a
\* server with the producer's result.
C4_Witness ==
    /\ ~redis /\ route = "kickassanime/watch"
    /\ \E q \in Reqs :
          /\ q.server # Undefined
          /\ q.ev = <<"invoke", "return">>
          /\ q.call = Call("kickassanime.fetchEpisodeSources", <<q.id, q.server>>)
          /\ q.status = 200 /\ q.body = q.val /\ q.val = Payload42

\* C5: a request calls its producer at most once: not at all when the fetch
\* resolves from the cache, exactly once when the producer has returned to it
\* or thrown or is running, and never again after the producer has thrown.
C5_AtMostOneInvocation ==
    \A q \in Reqs :
        /\ Invocations(q) <= 1
        /\ (q.fpc = "resolved" /\ q.val = NoVal) => Invocations(q) = 0
        /\ (q.fpc \in {"producer", "set"} \/ q.val # NoVal \/ IsError(q.res))
           => Invocations(q) = 1
        /\ "throw" \in Range(q.ev) => q.fpc = "rejected"

\* One request was served from the cache and one has seen its producer fail.
C5_Witness ==
    \E q \in Reqs, p \in Reqs :
        /\ q.ev = <<"get">> /\ q.fpc = "resolved" /\ q.status = 200
        /\ p.ev = <<"get", "invoke", "throw">> /\ p.status >= 500

\* C6: a read that misses while another request of the same key has its
\* producer call in progress calls the producer itself, so that two producer
\* calls of the key are made; each call that missed resolves with what its
\* own producer call returned.
C6_NoSingleFlight ==
    /\ [][\A q \in Reqs, q2 \in BagToSet(req') :
            (/\ ReadBy(q, q2)
             /\ ~Fresh(Key(q))
             /\ \E p \in Reqs : p.fpc = "producer" /\ Key(p) = Key(q))
            => /\ q2.fpc = "producer"
               /\ q2.ev = q.ev \o <<"get", "invoke">>
               /\ q2.call = CachedCall(route, q.id, q.server)]_vars
    /\ [](\A q \in Reqs :
            (q.fpc = "resolved" /\ q.val # NoVal) => q.res = q.val)

\* Two requests of the same key, the cache cold, both have their producer
\* call in progress.
C6_Witness ==
    \E q \in Reqs :
        /\ q.fpc = "producer" /\ q.ev = <<"get", "invoke">>
        /\ Key(q) \notin DOMAIN written
        /\ \/ CopiesIn(q, req) = 2
           \/ \E p \in Reqs \ {q} :
                 p.fpc = "producer" /\ Key(p) = Key(q) /\ p.ev = q.ev

\* the steps of the fetch of q, the firing of the handler's timer left out
FetchEv(q) == SelectSeq(q.ev, LAMBDA e : e # "timeout")

\* C7: within one cache.fetch call the read of K comes first, the producer
\* is called only after the read has missed, and the write of K is made only
\* after the producer has returned; a call that hits makes neither a producer
\* call nor a write, and a call whose producer throws makes no write.
C7_ReadProducerWrite ==
    (redis /\ UsesCache(route)) =>
        \A q \in Reqs :
            /\ q.fpc = "none" => FetchEv(q) = <<>>
            /\ q.fpc = "get" => FetchEv(q) = <<>>
            /\ q.fpc = "producer" => FetchEv(q) = <<"get", "invoke">>
            /\ q.fpc = "set" => FetchEv(q) = <<"get", "invoke", "return">>
            /\ q.fpc = "rejected" => FetchEv(q) = <<"get", "invoke", "throw">>
            /\ q.fpc = "resolved"
               => \/ FetchEv(q) = <<"get">> /\ q.val = NoVal
                  \/ /\ FetchEv(q) = <<"get", "invoke", "return", "set">>
                     /\ q.val \in ProducerResults(route)

\* A call has read, missed, called its producer and written, and the entry is
\* in the store.
C7_Witness ==
    \E q \in Reqs :
        /\ redis /\ q.ev = <<"get", "invoke", "return", "set">>
        /\ q.fpc = "resolved" /\ q.res = q.val
        /\ Key(q) \in DOMAIN store
        /\ store[Key(q)].val = Serialize(q.val)

\* C8: a write of K replaces whatever entry K has: after it the store holds
\* the serialized result of the writing call's own producer call with a full
\* lifetime, so the entry is always that of the last write; each call that
\* missed resolves with the result of its own producer call, whatever the
\* store holds.
C8_LastWriteWins ==
    /\ [][\A q \in Reqs, q2 \in BagToSet(req') :
            WriteBy(q, q2)
            => /\ store'[Key(q)] = EntryOf(Serialize(q.val), REDIS_TTL)
               /\ written'[Key(q)].val = q.val
               /\ q2.res = q.val]_vars
    /\ [](\A k \in DOMAIN store :
            /\ k \in DOMAIN written
            /\ store[k].val = Serialize(written[k].val)
            /\ store[k].ttl = REDIS_TTL - written[k].age)
    /\ [](\A q \in Reqs :
            (q.fpc = "resolved" /\ "set" \in Range(q.ev)) => q.res = q.val)

\* Two calls missed the same key and got different results from their
\* producers: each has returned its own, the store holds the one written
\* last.
C8_Witness ==
    \E q \in Reqs, p \in Reqs :
        /\ Key(q) = Key(p)
        /\ q.ev = <<"get", "invoke", "return", "set">> /\ p.ev = q.ev
        /\ q.res = Payload42 /\ p.res = Payload99
        /\ q.status = 200 /\ p.status = 200
        /\ store[Key(q)] = EntryOf(Serialize(Payload99), REDIS_TTL)

\* C9: every entry of the store parses to the result a producer call for its
\* key returned (the one the last write of the key wrote), and a hit
\* resolves with exactly that value.
C9_EntryIsProducerResult ==
    /\ [](\A k \in DOMAIN store :
            /\ k \in DOMAIN written
            /\ Deserialize(store[k].val) = written[k].val
            /\ written[k].val \in ProducerResults(route)
            /\ written[k].inv = 1)
    /\ [][\A q \in Reqs, q2 \in BagToSet(req') :
            (ReadBy(q, q2) /\ Fresh(Key(q)))
            => /\ q2.fpc = "resolved"
               /\ q2.res = written[Key(q)].val
               /\ Serialize(q2.res) = store[Key(q)].val]_vars

\* animepahe /watch: a result with headers is in the store and a later
\* request was served from it.
C9_Witness ==
    \E q \in Reqs :
        /\ route = "animepahe/watch"
        /\ q.ev = <<"get">> /\ q.res = PayloadHdr
        /\ q.status = 200 /\ q.body = WithReferer(PayloadHdr)
        /\ Deserialize(store[Key(q)].val) = PayloadHdr

\* C10: apart from the passing of time, the store changes only by the write
\* of K a call makes after its producer has returned: that step changes no
\* other key, and the steps in which a call reads (hit or miss), its producer
\* returns or throws, a request arrives or a timer fires leave every entry,
\* its remaining lifetime included, as it was.
C10_Frame ==
    [][ticks' = ticks =>
        /\ \A k \in DOMAIN store : k \in DOMAIN store'
        /\ \A k \in DOMAIN store' :
              (k \notin DOMAIN store \/ store'[k] # store[k])
              => \E q \in Reqs, q2 \in BagToSet(req') :
                    /\ WriteBy(q, q2) /\ Key(q) = k
                    /\ FetchEv(q) = <<"get", "invoke", "return">>
        /\ \A q \in Reqs, q2 \in BagToSet(req') :
              (ReadBy(q, q2) \/ ThrowBy(q, q2)) => store' = store]_vars

\* kickassanime /watch/*: the store holds two keys of different remaining
\* lifetime, and a request was served from the older one.
C10_Witness ==
    \E q \in Reqs :
        /\ q.ev = <<"get">> /\ q.fpc = "resolved"
        /\ \E k \in DOMAIN store \ {Key(q)} :
              store[k].ttl > store[Key(q)].ttl

\* C12 as stated: with Redis configured every producer call a handler makes
\* is made by cache.fetch after its read has missed.
C12_Original ==
    redis => \A q \in Reqs :
                "invoke" \in Range(q.ev) => FetchEv(q)[1] = "get"

\* C12, amended: with Redis configured the handlers of kickassanime, anizone,
\* allmanga and animepahe obtain their result through cache.fetch (their
\* producer is called only after the read of their key has missed, and a read
\* within the TTL of the last write calls no producer), while the handlers of
\* routes/anime/animeyy.ts call their scraper directly for every request and
\* never read or write the cache.
C12_CachedRoutesUseHelper ==
    /\ [](redis =>
            \A q \in Reqs :
               /\ route \in {"kickassanime/info", "kickassanime/watch",
                             "anizone/watch", "allmanga/watch", "animepahe/watch"}
                  => /\ q.fpc # "none" => q.fpc = "get" \/ FetchEv(q)[1] = "get"
                     /\ "invoke" \in Range(q.ev)
                        => /\ FetchEv(q)[1] = "get"
                           /\ q.call = CachedCall(route, q.id, q.server)
               /\ route \in {"animeyy/info", "animeyy/watch"}
                  => /\ store = <<>>
                     /\ "get" \notin Range(q.ev) /\ "set" \notin Range(q.ev)
                     /\ q.id # Undefined => FetchEv(q)[1] = "invoke")
    /\ [][\A q \in Reqs, q2 \in BagToSet(req') :
            (ReadBy(q, q2) /\ WrittenWithinTtl(Key(q)))
            => "invoke" \notin Range(q2.ev)]_vars

\* With Redis configured, animeyy /watch has answered two requests for the
\* same episode, each from a scraper call of its own.
C12_Witness ==
    /\ redis /\ route = "animeyy/watch" /\ ticks = 0
    /\ \E q \in Reqs :
          /\ q.ev = <<"invoke", "return">> /\ q.status = 200
          /\ \/ CopiesIn(q, req) = 2
             \/ \E p \in Reqs \ {q} :
                   p.id = q.id /\ p.ev = q.ev /\ p.status = 200

\* the request lacks its required parameter, as C13 puts it
LacksParameter(q) ==
    \/ q.id = Undefined
    \/ route = "kickassanime/watch" /\ q.id = EmptyString

\* C13: a request that lacks its required parameter (for the wildcard route
\* also an empty episodeId) is answered 400 once, with no cache read, no
\* producer call and no cache write made for it, and its arrival leaves the
\* store unchanged; no other request is answered 400.
C13_ValidationFirst ==
    /\ [](\A q \in Reqs :
            /\ LacksParameter(q)
               => /\ q.hpc = "done" /\ q.status = 400 /\ q.sent = 1
                  /\ q.body = MissingBody(route)
                  /\ q.ev = <<>> /\ q.fpc = "none" /\ q.call = NoCall
            /\ q.status = 400 => LacksParameter(q))
    /\ [][(\E q2 \in BagToSet(req') :
              LacksParameter(q2) /\ CopiesIn(q2, req') > CopiesIn(q2, req))
          => store' = store /\ written' = written]_vars

\* kickassanime /watch/* with Redis: a request with an empty episodeId was
\* answered 400 while the store holds an entry.
C13_Witness ==
    /\ redis /\ route = "kickassanime/watch" /\ store # <<>>
    /\ \E q \in Reqs : q.id = EmptyString /\ q.status = 400 /\ q.ev = <<>>

C16_RefererOverride ==
    route = "animepahe/watch" =>
        \A q \in Reqs :
            /\ (q.hpc = "done" /\ q.status = 200)
               => /\ q.res \in ProducerResults(route) \ {Null}
                  /\ q.body.headers.Referer = "https://kwik.cx"
                  /\ DOMAIN q.body = DOMAIN q.res \cup {"headers"}
                  /\ \A f \in DOMAIN q.res \ {"headers"} : q.body[f] = q.res[f]
                  /\ "headers" \in DOMAIN q.res
                     => /\ DOMAIN q.body.headers = DOMAIN q.res.headers \cup {"Referer"}
                        /\ \A h \in DOMAIN q.res.headers \ {"Referer"} :
                              q.body.headers[h] = q.res.headers[h]
                  /\ "headers" \notin DOMAIN q.res
                     => DOMAIN q.body.headers = {"Referer"}
            /\ (q.hpc = "done" /\ q.res = Null /\ "timeout" \notin Range(q.ev))
               => q.status = 404 /\ q.body # Null

\* A result with headers was served from the cache with the Referer
\* overridden and the User-Agent kept, and a null result was answered 404.
C16_Witness ==
    \E q \in Reqs, p \in Reqs :
        /\ q.ev = <<"get">> /\ q.status = 200
        /\ q.body = [value |-> 99,
                     headers |-> [Referer |-> "https://kwik.cx", UserAgent |-> "ua"]]
        /\ p.res = Null /\ p.status = 404

\* the number of steps the request can still take, at most
StepsLeft(i) ==
    CASE i.pc = "start" -> MaxAjaxPages + 2
      [] i.pc = "page" -> MaxAjaxPages + 1
      [] i.pc = "ajax" -> MaxAjaxPages + 1 - Len(i.asked)
      [] OTHER -> 0

\* C17: fetchAnimeInfo issues at most MaxAjaxPages (50 in the source) AJAX
\* requests, the k-th of them for page_num k, and none when the id does not
\* end with a manga id; it terminates: every answer it gets brings it nearer
\* to its end by a measure that is never negative.
C17_BoundedLoop ==
    /\ [](/\ Len(info.asked) <= MaxAjaxPages
          /\ \A k \in DOMAIN info.asked : info.asked[k] = k
          /\ info.pc = "ajax" => info.asked[Len(info.asked)] = info.pageNum
          /\ (info.id = Undefined \/ ~HasMangaId(CleanId(info.id)))
             => info.asked = <<>>)
    /\ [](StepsLeft(info) >= 0 /\ (StepsLeft(info) = 0 <=> info.pc = "done"))
    /\ [][StepsLeft(info') < StepsLeft(info)]_vars

\* The loop was stopped by its cap: MaxAjaxPages requests were issued and
\* the last page still added an episode.
C17_Witness ==
    /\ info.pc = "done" /\ info.status = 200
    /\ Len(info.asked) = MaxAjaxPages
    /\ info.hasMore /\ info.emptyCount = 0
    /\ info.pageNum = MaxAjaxPages + 1

\* C18: when the AJAX response of a page is handled, a page that adds an
\* episode resets emptyCount to 0 and the loop goes on; a page with episode
\* links that adds none counts one up and the loop stops exactly when the
\* count reaches EmptyLimit (2); a response without '/epi-' content (or a
\* failed request) stops the loop at once.  A further page is requested
\* exactly when the loop goes on and the cap is not reached.
C18_StopRule ==
    /\ [](/\ info.emptyCount \in 0..EmptyLimit
          /\ info.emptyCount = EmptyLimit => ~info.hasMore /\ info.pc = "done")
    /\ [][info.pc = "ajax" =>
            LET grew == Len(info'.episodes) > Len(info.episodes)
                advanced == info'.pageNum = info.pageNum + 1
            IN  /\ grew => advanced /\ info'.emptyCount = 0 /\ info'.hasMore
                /\ (advanced /\ ~grew)
                   => /\ info'.episodes = info.episodes
                      /\ info'.emptyCount = info.emptyCount + 1
                      /\ info'.hasMore <=> info'.emptyCount < EmptyLimit
                /\ ~advanced
                   => /\ info'.pageNum = info.pageNum
                      /\ info'.episodes = info.episodes
                      /\ ~info'.hasMore /\ info'.pc = "done"
                /\ info'.pc = "ajax"
                   <=> (info'.hasMore /\ info'.pageNum <= MaxAjaxPages)
                /\ info'.asked = IF info'.pc = "ajax"
                                 THEN Append(info.asked, info'.pageNum)
                                 ELSE info.asked]_vars

\* Four pages were requested and one episode found: the first page had links
\* but no new episode, the second added the episode and reset the count, the
\* third and the fourth added none and stopped the loop.
C18_Witness ==
    /\ info.pc = "done" /\ info.asked = <<1, 2, 3, 4>>
    /\ Len(info.episodes) = 1
    /\ info.emptyCount = EmptyLimit /\ ~info.hasMore

\* the episodes fetchAnimeInfo has before the sort
BeforeSort(i) ==
    IF i.episodes = <<>> THEN ParseEpisodes(<<>>, CleanId(i.id), i.data)
    ELSE i.episodes

\* what a client gets that asks for page k and the pages after it as long as
\* hasNextPage is true
RECURSIVE ConcatPages(_, _)
ConcatPages(episodes, k) ==
    PageSlice(episodes, Num(k))
    \o (IF HasNextPage(Num(k), Len(episodes)) THEN ConcatPages(episodes, k + 1)
        ELSE <<>>)

\* C19: a request with page = n >= 1 is answered with the episodes at the
\* positions (n-1)*EpisodesPerPage+1 .. n*EpisodesPerPage of the full list,
\* which is the fetched episodes sorted ascending by number; totalEpisodes
\* is the length of the full list, currentPage is n, hasNextPage says whether
\* n*EpisodesPerPage < totalEpisodes; the pages 1, 2, ... up to the first
\* without a next page, put together, are the full list.
C19_PagingArithmetic ==
    LET page == PageOf(info.query)
        all == info.all
        total == Len(all)
        first == (page.n - 1) * EpisodesPerPage
        count == IF total - first > EpisodesPerPage THEN EpisodesPerPage
                 ELSE IF total - first > 0 THEN total - first ELSE 0
    IN  (info.pc = "done" /\ info.status = 200 /\ page.kind = "number"
            /\ page.n >= 1)
        => /\ \A i \in 1..total, j \in 1..total :
                 i < j => all[i].number <= all[j].number
           /\ total = Len(BeforeSort(info))
           /\ Range(all) = Range(BeforeSort(info))
           /\ info.body.episodes = [k \in 1..count |-> all[first + k]]
           /\ info.body.totalEpisodes = total
           /\ info.body.currentPage = Num(page.n)
           /\ info.body.hasNextPage <=> page.n * EpisodesPerPage < total
           /\ ConcatPages(all, 1) = all

\* Page 2 of more than one page of episodes that were fetched out of order.
C19_Witness ==
    /\ info.pc = "done" /\ info.query = <<"2">>
    /\ Len(info.all) > EpisodesPerPage
    /\ info.all # info.episodes /\ info.episodes # <<>>
    /\ info.body.episodes # <<>>
    /\ info.body.episodes[1] = info.all[EpisodesPerPage + 1]
    /\ info.body.currentPage = Num(2)

\* C20 as stated: a response to a request that supplies page holds at most
\* one page of episodes (EpisodesPerPage, 100 in the source), namely the
\* page asked for; a response to a request without page holds the full list
\* and has neither currentPage nor hasNextPage.
C20_Original ==
    (info.pc = "done" /\ info.status = 200)
    => /\ info.query # Undefined
          => Len(info.body.episodes) <= EpisodesPerPage
       /\ info.query = Undefined
          => /\ info.body.episodes = info.all
             /\ "currentPage" \notin DOMAIN info.body
             /\ "hasNextPage" \notin DOMAIN info.body

\* page=0 was supplied and the response holds the full list, longer than
\* one page, with currentPage 0 and hasNextPage true.
C20_Witness ==
    /\ info.pc = "done" /\ info.status = 200 /\ info.query = <<"0">>
    /\ Len(info.body.episodes) > EpisodesPerPage
    /\ info.body.episodes = info.all
    /\ info.body.currentPage = Num(0) /\ info.body.hasNextPage

\* no two entries of the list have the same episode id
DistinctIds(episodes) ==
    \A j \in DOMAIN episodes, k \in DOMAIN episodes :
        episodes[j].id = episodes[k].id => j = k

\* the list is in ascending order of the episode numbers
Ascending(episodes) ==
    \A j \in DOMAIN episodes, k \in DOMAIN episodes :
        j < k => episodes[j].number <= episodes[k].number

\* C21: at every point of fetchAnimeInfo, after any number of AJAX pages and
\* after the fallback parse of the anime page, the episodes list holds no two
\* entries with the same episode id; the list after the sort and the
\* episodes of the response hold none either and are in ascending order of
\* the episode numbers.
C21_EpisodeListInvariant ==
    /\ DistinctIds(info.episodes)
    /\ (info.pc = "done" /\ info.status = 200)
       => /\ DistinctIds(info.all) /\ Ascending(info.all)
          /\ DistinctIds(info.body.episodes) /\ Ascending(info.body.episodes)
          /\ Len(info.all) = Cardinality({e.id : e \in Range(info.all)})

\* Three pages were fetched: the second repeated an episode of the first and
\* added nothing, and the two episodes, fetched in descending order, were
\* sorted.
C21_Witness ==
    /\ info.pc = "done" /\ info.status = 200 /\ info.query = Undefined
    /\ Len(info.asked) >= 3 /\ info.emptyCount >= 1
    /\ Len(info.episodes) = 2
    /\ info.episodes[1].number > info.episodes[2].number
    /\ info.body.episodes = info.all /\ info.all # info.episodes

\* C22: when the AJAX request of page k throws, the loop stops and no
\* further page is requested, the request is answered 200, the episodes of
\* the pages 1..k-1 are all in the sorted list and counted by totalEpisodes
\* (and are the whole response when no page was asked for); the anime page
\* is parsed for episodes only when the AJAX pages gave none.
C22_PartialResults ==
    /\ [][(info.pc = "ajax" /\ info'.failedAt # 0)
            => /\ info'.failedAt = info.pageNum
               /\ info'.pc = "done" /\ info'.status = 200
               /\ info'.asked = info.asked
               /\ info'.episodes = info.episodes
               /\ Range(info.episodes) \subseteq Range(info'.all)
               /\ info'.body.totalEpisodes = Len(info'.all)
               /\ info.query = Undefined => info'.body.episodes = info'.all]_vars
    /\ [](info.pc = "done" /\ info.status = 200
           => /\ info.episodes # <<>> => Range(info.all) = Range(info.episodes)
              /\ info.episodes = <<>>
                 => info.all = SortEpisodes(ParseEpisodes(<<>>, CleanId(info.id),
                                                         info.data)))

\* The request of page 2 threw; the two episodes of page 1 are the response,
\* without the episode 1 that only the anime page links to.
C22_Witness ==
    /\ info.pc = "done" /\ info.status = 200 /\ info.query = Undefined
    /\ info.failedAt = 2 /\ info.asked = <<1, 2>>
    /\ Len(info.episodes) = 2 /\ info.data = <<EpB, EpA>>
    /\ \A e \in Range(info.all) : e.number # EpA.num
    /\ Len(info.body.episodes) = 2
    /\ Range(info.body.episodes) = Range(info.episodes)

\* no two entries of sources have the same url
DistinctUrls(sources) ==
    \A j \in DOMAIN sources, k \in DOMAIN sources :
        sources[j].url = sources[k].url => j = k

\* C23 as stated: the sources that fetchEpisodeSources of
\* routes/anime/animeyy.ts returns never hold two entries with the same
\* url, whatever the page holds, the replacement of '/embed/' by '/anime/'
\* included.
C23_Original ==
    (scrape.pc = "done" /\ scrape.impl = "animeyy.ts")
    => DistinctUrls(scrape.result.sources)

\* The page holds a url with '/embed/' and the same url with '/anime/': two
\* sources before the replacement, and two entries with one url after it.
C23_Witness ==
    /\ scrape.pc = "done" /\ scrape.impl = "animeyy.ts"
    /\ Len(scrape.sources) = 2
    /\ scrape.sources[1].url = EmbedM3u8 /\ scrape.sources[2].url = AnimeM3u8
    /\ Len(scrape.result.sources) = 2
    /\ scrape.result.sources[1].url = AnimeM3u8
    /\ scrape.result.sources[2].url = AnimeM3u8

\* the entry stands for the iframe
IsIframeEntry(source) == "type" \in DOMAIN source /\ source.type = "iframe"

C25_Original ==
    keyed.pc = "done"
    => (keyed.callA # keyed.callB => keyed.keyA # keyed.keyB)

\* kickassanime /watch/a without server and /watch/a?server=default: the
\* first calls fetchEpisodeSources(a), the second fetchEpisodeSources(a,
\* default), both under the key kickassanime:watch:a:default.
C25_Witness ==
    /\ keyed.pc = "done"
    /\ keyed.a = KeyRequest("kickassanime/watch", <<"a">>, Undefined)
    /\ keyed.b = KeyRequest("kickassanime/watch", <<"a">>, <<"default">>)
    /\ keyed.keyA = <<"kickassanime", ":", "watch", ":", "a", ":", "default">>
    /\ keyed.keyB = keyed.keyA
    /\ keyed.callA = Call("kickassanime.fetchEpisodeSources", <<(<<"a">>)>>)
    /\ keyed.callB = Call("kickassanime.fetchEpisodeSources", <<(<<"a">>), (<<"default">>)>>)

\* the timer of request q has fired
TimedOut(q) == "timeout" \in Range(q.ev)

\* C26: the firing of the timer of animepahe /watch leaves the fetch where
\* it is, and the store untouched.  When the producer of a timed-out request
\* then returns, its result is written (there being a Redis handle, without
\* which nothing is cached) under animepahe:watch:<episodeId>
\* with the TTL, and a request that reads the key less than REDIS_TTL
\* seconds after that write is served the result without calling the
\* producer; when the producer throws, nothing is written.  Neither outcome
\* changes the 504 already sent or sends a second reply.
C26_TimeoutDoesNotCancel ==
    /\ [](\A q \in Reqs :
            TimedOut(q)
            => /\ q.sent = 1 /\ q.status = 504
               /\ "return" \in Range(q.ev)
                    => q.fpc \in {"set", "resolved"} /\ q.val \in ProducerResults(route)
               /\ (redis /\ q.fpc = "resolved" /\ "return" \in Range(q.ev))
                    => "set" \in Range(q.ev) /\ Key(q) \in DOMAIN written)
    /\ [][\A q \in Reqs, q2 \in BagToSet(req') :
            /\ (Becomes(q, q2) /\ TimedOut(q2) /\ ~TimedOut(q))
               => /\ q2.fpc = q.fpc /\ q2.call = q.call /\ q2.val = q.val
                  /\ FetchEv(q2) = FetchEv(q)
                  /\ store' = store
            /\ (Becomes(q, q2) /\ TimedOut(q) /\ q.fpc = "producer"
                   /\ q2.fpc # "producer")
               => /\ q2.fpc \in (IF redis THEN {"set", "rejected"}
                                  ELSE {"resolved", "rejected"})
                  /\ q2.sent = 1 /\ q2.status = 504 /\ q2.body = q.body
            /\ (WriteBy(q, q2) /\ TimedOut(q))
               => /\ Key(q) = <<"animepahe", ":", "watch", ":">> \o q.id
                  /\ Key(q) \in DOMAIN store'
                  /\ store'[Key(q)] = EntryOf(Serialize(q.val), REDIS_TTL)
                  /\ q2.fpc = "resolved"
                  /\ q2.sent = 1 /\ q2.status = 504 /\ q2.body = q.body
            /\ (ThrowBy(q, q2) /\ TimedOut(q))
               => /\ store' = store
                  /\ q2.sent = 1 /\ q2.status = 504 /\ q2.body = q.body
            /\ (ReadBy(q, q2) /\ WrittenWithinTtl(Key(q))
                   /\ \E w \in Reqs :
                         /\ TimedOut(w) /\ "set" \in Range(w.ev)
                         /\ w.fpc = "resolved" /\ Key(w) = Key(q)
                         /\ written[Key(q)].val = w.val)
               => /\ q2.fpc = "resolved" /\ Invocations(q2) = 0
                  /\ q2.res = written[Key(q)].val
                  /\ q.hpc = "await"
                       => /\ q2.sent = 1
                          /\ q2.status = IF q2.res = Null THEN 404 ELSE 200]_vars

\* The timer fired while the producer was running and the request was
\* answered 504; the producer returned and its result was written; a second
\* request for the same episodeId has been answered 200 with that result
\* from the cache, without a producer call.
C26_Witness ==
    \E q \in Reqs, p \in Reqs :
        /\ route = "animepahe/watch"
        /\ q.ev = <<"get", "invoke", "timeout", "return", "set">>
        /\ q.fpc = "resolved" /\ q.status = 504 /\ q.sent = 1
        /\ p.ev = <<"get">> /\ p.hpc = "done" /\ p.status = 200 /\ p.sent = 1
        /\ Key(p) = Key(q) /\ p.res = q.val
        /\ WrittenWithinTtl(Key(q))

====
